---- MODULE Spec2Model ----
(***************************************************************************)
(* Model of custom_components/innova/climate.py: the InnovaEntity climate  *)
(* entity, a facade over an innova_controls.Innova handle.                 *)
(*                                                                         *)
(* Temperatures are integers counted in 1/TempScale of a degree Celsius.   *)
(* Python's None is the string None for label/name valued results and the  *)
(* empty sequence for an optional number.                                  *)
(***************************************************************************)
EXTENDS Integers, Sequences, FiniteSets, TLC

VARIABLES innova, _name, _id, pc, upd, prev, call, obs

vars == <<innova, _name, _id, pc, upd, prev, call, obs>>

(* ------------------------------ bounds --------------------------------- *)

\* fan speeds the handle may report range over -1 .. MaxSpeed
MaxSpeed == 4
\* temperature units per degree Celsius
TempScale == 2
\* lowest / highest target temperature the handle reports, in degrees
MinTemp == 16
MaxTemp == 18

(* --------------------------- vocabulary -------------------------------- *)

None == "None"

\* the `+ 1` / `- 1` of the AUTO comparison, in degrees
DeadbandDegrees == 1
Deadband == DeadbandDegrees * TempScale

\* innova_controls.Mode members used by the entity, and two values outside them
KnownModes == {"HEATING", "COOLING", "DEHUMIDIFICATION", "FAN_ONLY", "AUTO"}
DeviceModes == KnownModes \cup {"OFF", "UNKNOWN"}

\* homeassistant HVACMode values; heat_cool is a host mode the entity does not list
hvac_modes == {"off", "cool", "heat", "dry", "fan_only", "auto"}
HvacModeInputs == hvac_modes \cup {"heat_cool"}

fan_modes == {"auto", "low", "medium", "high"}
FanModeInputs == fan_modes \cup {"diffuse"}

swing_modes == {"off", "on"}
SwingModeInputs == swing_modes \cup {"vertical"}

FanSpeeds == (-1) .. MaxSpeed

Targets == {MinTemp * TempScale, MaxTemp * TempScale}
Temps == (MinTemp * TempScale - Deadband - 1) .. (MaxTemp * TempScale + Deadband + 1)

\* temperatures a caller may pass: inside and outside the reported limits
TemperatureInputs ==
    {MinTemp * TempScale - TempScale, MinTemp * TempScale + 1, MaxTemp * TempScale + TempScale}
\* keyword arguments of set_temperature: ATTR_TEMPERATURE absent, or present
KwargsInputs == {<<>>} \cup {<<t>> : t \in TemperatureInputs}

Names == {"Innova"}
Ids == {"SN-1"}

\* faults the handle may raise from a call ("none": the call returns)
Faults == {"ConnectionError", "Timeout"}
FaultInputs == {"none"} \cup Faults

\* everything the handle can hold after a fetch
Snapshots ==
    [power : BOOLEAN, mode : DeviceModes, fan_speed : FanSpeeds, rotation : BOOLEAN,
     ambient_temp : Temps, target_temperature : Targets,
     min_temperature : {MinTemp * TempScale}, max_temperature : {MaxTemp * TempScale},
     name : Names, id : Ids]

\* the snapshots the device serves to the polling entity
PollSnapshots ==
    {s \in Snapshots :
        /\ s.mode = "AUTO"
        /\ s.target_temperature = MinTemp * TempScale
        /\ s.ambient_temp = s.target_temperature + Deadband + 1}

(* ------------------------- read properties ----------------------------- *)

name(n) == n

unique_id(i) == i

current_temperature(h) == h.ambient_temp

target_temperature(h) == h.target_temperature

min_temp(h) == h.min_temperature

max_temp(h) == h.max_temperature

\* variant: the AUTO comparisons include the edge of the deadband
hvac_action_inclusive(h) ==
    LET mode == h.mode IN
    IF ~h.power THEN "off"
    ELSE IF mode = "HEATING" THEN "heating"
    ELSE IF mode = "COOLING" THEN "cooling"
    ELSE IF mode = "DEHUMIDIFICATION" THEN "drying"
    ELSE IF mode = "FAN_ONLY" THEN "fan"
    ELSE IF mode = "AUTO" THEN
        IF h.ambient_temp >= h.target_temperature + Deadband THEN "cooling"
        ELSE IF h.ambient_temp <= h.target_temperature - Deadband THEN "heating"
        ELSE "idle"
    ELSE "idle"

hvac_action(h) ==
    LET mode == h.mode IN
    IF ~h.power THEN "off"
    ELSE IF mode = "HEATING" THEN "heating"
    ELSE IF mode = "COOLING" THEN "cooling"
    ELSE IF mode = "DEHUMIDIFICATION" THEN "drying"
    ELSE IF mode = "FAN_ONLY" THEN "fan"
    ELSE IF mode = "AUTO" THEN
        IF current_temperature(h) > target_temperature(h) + Deadband THEN "cooling"
        ELSE IF current_temperature(h) < target_temperature(h) - Deadband THEN "heating"
        ELSE "idle"
    ELSE "idle"

\* variant: the mode table is consulted without looking at power first
hvac_mode_ignores_power(h) ==
    IF h.mode = "COOLING" THEN "cool"
    ELSE IF h.mode = "HEATING" THEN "heat"
    ELSE IF h.mode = "DEHUMIDIFICATION" THEN "dry"
    ELSE IF h.mode = "FAN_ONLY" THEN "fan_only"
    ELSE IF h.mode = "AUTO" THEN "auto"
    ELSE "off"

hvac_mode(h) ==
    IF ~h.power THEN "off"
    ELSE IF h.mode = "COOLING" THEN "cool"
    ELSE IF h.mode = "HEATING" THEN "heat"
    ELSE IF h.mode = "DEHUMIDIFICATION" THEN "dry"
    ELSE IF h.mode = "FAN_ONLY" THEN "fan_only"
    ELSE IF h.mode = "AUTO" THEN "auto"
    ELSE "off"

\* variant: the speed table starts at 1
fan_mode_shifted(h) ==
    IF h.fan_speed = 1 THEN "auto"
    ELSE IF h.fan_speed = 2 THEN "low"
    ELSE IF h.fan_speed = 3 THEN "medium"
    ELSE IF h.fan_speed = 4 THEN "high"
    ELSE None

fan_mode(h) ==
    IF h.fan_speed = 0 THEN "auto"
    ELSE IF h.fan_speed = 1 THEN "low"
    ELSE IF h.fan_speed = 2 THEN "medium"
    ELSE IF h.fan_speed = 3 THEN "high"
    ELSE None

swing_mode(h) == IF h.rotation THEN "on" ELSE "off"

\* what a reader of the entity sees when it calls every read property
View(h, n, i) ==
    [name |-> name(n), unique_id |-> unique_id(i),
     current_temperature |-> current_temperature(h),
     target_temperature |-> target_temperature(h),
     min_temp |-> min_temp(h), max_temp |-> max_temp(h),
     hvac_action |-> hvac_action(h), hvac_mode |-> hvac_mode(h),
     fan_mode |-> fan_mode(h), swing_mode |-> swing_mode(h)]

CurView == View(innova, _name, _id)

(* --------------------------- handle calls ------------------------------ *)

\* a call in progress: the commands the handle received, the fault raised so far
Begin == [cmds |-> <<>>, raised |-> "none"]

\* self._innova.<cmd>(...): skipped once an exception is unwinding the method;
\* otherwise the handle receives cmd and returns or raises fault
HandleCall(st, cmd, fault) ==
    IF st.raised # "none" THEN st
    ELSE [cmds |-> Append(st.cmds, cmd), raised |-> fault]

NoCall == [op |-> "none", arg |-> "none", fault |-> "none", cmds |-> <<>>, result |-> "none"]

NoObs == [op |-> "none", val |-> "none"]

(* ------------------------------ update --------------------------------- *)

\* variant: name and id are cleared before the handle is asked to fetch
update_fetch_clears ==
    /\ pc = "idle"
    /\ prev' = CurView
    /\ _name' = None
    /\ _id' = None
    /\ \E fault \in FaultInputs :
          IF fault = "none"
          THEN /\ \E s \in PollSnapshots : innova' = s
               /\ pc' = "l81"
               /\ upd' = [fault |-> fault, result |-> "running"]
          ELSE /\ innova' = innova
               /\ pc' = "idle"
               /\ upd' = [fault |-> fault, result |-> fault]
    /\ UNCHANGED <<call, obs>>

\* line 80: self._innova.update(); the handle stores a fetched snapshot, or raises
update_fetch ==
    /\ pc = "idle"
    /\ prev' = CurView
    /\ \E fault \in FaultInputs :
          IF fault = "none"
          THEN /\ \E s \in PollSnapshots : innova' = s
               /\ pc' = "l81"
               /\ upd' = [fault |-> fault, result |-> "running"]
          ELSE /\ innova' = innova
               /\ pc' = "idle"
               /\ upd' = [fault |-> fault, result |-> fault]
    /\ UNCHANGED <<_name, _id, call, obs>>

\* line 81: self._name = self._innova.name
update_name ==
    /\ pc = "l81"
    /\ _name' = innova.name
    /\ pc' = "l82"
    /\ UNCHANGED <<innova, _id, upd, prev, call, obs>>

\* line 82: self._id = self._innova.id, and update() returns
update_id ==
    /\ pc = "l82"
    /\ _id' = innova.id
    /\ pc' = "idle"
    /\ upd' = [upd EXCEPT !.result = "ok"]
    /\ prev' = View(innova, _name, innova.id)
    /\ UNCHANGED <<innova, _name, call, obs>>

(* --------------------------- write methods ----------------------------- *)

\* variant: a unit that is off is powered on before its mode is set
set_hvac_mode_powers_on(m, fault) ==
    LET s0 == IF m \in {"cool", "heat", "dry", "fan_only", "auto"} /\ ~innova.power
              THEN HandleCall(Begin, [op |-> "power_on", arg |-> "none"], fault) ELSE Begin
        s1 == IF m = "off" THEN HandleCall(s0, [op |-> "power_off", arg |-> "none"], fault) ELSE s0
        s2 == IF m = "cool" THEN HandleCall(s1, [op |-> "set_mode", arg |-> "COOLING"], fault) ELSE s1
        s3 == IF m = "heat" THEN HandleCall(s2, [op |-> "set_mode", arg |-> "HEATING"], fault) ELSE s2
        s4 == IF m = "dry" THEN HandleCall(s3, [op |-> "set_mode", arg |-> "DEHUMIDIFICATION"], fault) ELSE s3
        s5 == IF m = "fan_only" THEN HandleCall(s4, [op |-> "set_mode", arg |-> "FAN_ONLY"], fault) ELSE s4
        s6 == IF m = "auto" THEN HandleCall(s5, [op |-> "set_mode", arg |-> "AUTO"], fault) ELSE s5
    IN  /\ call' = [op |-> "set_hvac_mode", arg |-> m, fault |-> fault,
                    cmds |-> s6.cmds, result |-> s6.raised]
        /\ UNCHANGED <<innova, _name, _id, pc, upd, prev, obs>>

set_hvac_mode(m, fault) ==
    LET s0 == Begin
        s1 == IF m = "off" THEN HandleCall(s0, [op |-> "power_off", arg |-> "none"], fault) ELSE s0
        s2 == IF m = "cool" THEN HandleCall(s1, [op |-> "set_mode", arg |-> "COOLING"], fault) ELSE s1
        s3 == IF m = "heat" THEN HandleCall(s2, [op |-> "set_mode", arg |-> "HEATING"], fault) ELSE s2
        s4 == IF m = "dry" THEN HandleCall(s3, [op |-> "set_mode", arg |-> "DEHUMIDIFICATION"], fault) ELSE s3
        s5 == IF m = "fan_only" THEN HandleCall(s4, [op |-> "set_mode", arg |-> "FAN_ONLY"], fault) ELSE s4
        s6 == IF m = "auto" THEN HandleCall(s5, [op |-> "set_mode", arg |-> "AUTO"], fault) ELSE s5
    IN  /\ call' = [op |-> "set_hvac_mode", arg |-> m, fault |-> fault,
                    cmds |-> s6.cmds, result |-> s6.raised]
        /\ UNCHANGED <<innova, _name, _id, pc, upd, prev, obs>>

\* variant: medium sends the speed of high
set_fan_mode_medium_high(label, fault) ==
    LET s0 == Begin
        s1 == IF label = "auto" THEN HandleCall(s0, [op |-> "set_fan_speed", arg |-> 0], fault) ELSE s0
        s2 == IF label = "low" THEN HandleCall(s1, [op |-> "set_fan_speed", arg |-> 1], fault) ELSE s1
        s3 == IF label = "medium" THEN HandleCall(s2, [op |-> "set_fan_speed", arg |-> 3], fault) ELSE s2
        s4 == IF label = "high" THEN HandleCall(s3, [op |-> "set_fan_speed", arg |-> 3], fault) ELSE s3
    IN  /\ call' = [op |-> "set_fan_mode", arg |-> label, fault |-> fault,
                    cmds |-> s4.cmds, result |-> s4.raised]
        /\ UNCHANGED <<innova, _name, _id, pc, upd, prev, obs>>

set_fan_mode(label, fault) ==
    LET s0 == Begin
        s1 == IF label = "auto" THEN HandleCall(s0, [op |-> "set_fan_speed", arg |-> 0], fault) ELSE s0
        s2 == IF label = "low" THEN HandleCall(s1, [op |-> "set_fan_speed", arg |-> 1], fault) ELSE s1
        s3 == IF label = "medium" THEN HandleCall(s2, [op |-> "set_fan_speed", arg |-> 2], fault) ELSE s2
        s4 == IF label = "high" THEN HandleCall(s3, [op |-> "set_fan_speed", arg |-> 3], fault) ELSE s3
    IN  /\ call' = [op |-> "set_fan_mode", arg |-> label, fault |-> fault,
                    cmds |-> s4.cmds, result |-> s4.raised]
        /\ UNCHANGED <<innova, _name, _id, pc, upd, prev, obs>>

\* variant: a fault of the handle is caught and the command is sent once more
set_swing_mode_retries(label, fault) ==
    LET s0 == Begin
        s1 == IF label = "on" THEN HandleCall(s0, [op |-> "rotation_on", arg |-> "none"], fault) ELSE s0
        r1 == IF s1.raised # "none"
              THEN HandleCall([s1 EXCEPT !.raised = "none"], [op |-> "rotation_on", arg |-> "none"], fault)
              ELSE s1
        s2 == IF label = "off" THEN HandleCall(r1, [op |-> "rotation_off", arg |-> "none"], fault) ELSE r1
    IN  /\ call' = [op |-> "set_swing_mode", arg |-> label, fault |-> fault,
                    cmds |-> s2.cmds, result |-> s2.raised]
        /\ UNCHANGED <<innova, _name, _id, pc, upd, prev, obs>>

set_swing_mode(label, fault) ==
    LET s0 == Begin
        s1 == IF label = "on" THEN HandleCall(s0, [op |-> "rotation_on", arg |-> "none"], fault) ELSE s0
        s2 == IF label = "off" THEN HandleCall(s1, [op |-> "rotation_off", arg |-> "none"], fault) ELSE s1
    IN  /\ call' = [op |-> "set_swing_mode", arg |-> label, fault |-> fault,
                    cmds |-> s2.cmds, result |-> s2.raised]
        /\ UNCHANGED <<innova, _name, _id, pc, upd, prev, obs>>

\* kwargs.get(ATTR_TEMPERATURE): the empty sequence stands for None
kwargs_get(kwargs) == kwargs

\* variant: the value is clamped to the limits the handle reports
set_temperature_clamps(kwargs, fault) ==
    LET temperature == kwargs_get(kwargs)
        clamp(v) == IF v < innova.min_temperature THEN innova.min_temperature
                    ELSE IF v > innova.max_temperature THEN innova.max_temperature
                    ELSE v
        s0 == Begin
        s1 == IF temperature = <<>> THEN s0
              ELSE HandleCall(s0, [op |-> "set_temperature", arg |-> clamp(temperature[1])], fault)
    IN  /\ call' = [op |-> "set_temperature", arg |-> kwargs, fault |-> fault,
                    cmds |-> s1.cmds, result |-> s1.raised]
        /\ UNCHANGED <<innova, _name, _id, pc, upd, prev, obs>>

\* variant: the entity stores the requested target in the snapshot it reads from
set_temperature_caches(kwargs, fault) ==
    LET temperature == kwargs_get(kwargs)
        s0 == Begin
        s1 == IF temperature = <<>> THEN s0
              ELSE HandleCall(s0, [op |-> "set_temperature", arg |-> temperature[1]], fault)
    IN  /\ call' = [op |-> "set_temperature", arg |-> kwargs, fault |-> fault,
                    cmds |-> s1.cmds, result |-> s1.raised]
        /\ innova' = IF temperature = <<>> THEN innova
                     ELSE [innova EXCEPT !.target_temperature = temperature[1]]
        /\ UNCHANGED <<_name, _id, pc, upd, prev, obs>>

set_temperature(kwargs, fault) ==
    LET temperature == kwargs_get(kwargs)
        s0 == Begin
        s1 == IF temperature = <<>> THEN s0
              ELSE HandleCall(s0, [op |-> "set_temperature", arg |-> temperature[1]], fault)
    IN  /\ call' = [op |-> "set_temperature", arg |-> kwargs, fault |-> fault,
                    cmds |-> s1.cmds, result |-> s1.raised]
        /\ UNCHANGED <<innova, _name, _id, pc, upd, prev, obs>>

(* ------------------------- specifications ------------------------------ *)

\* setup_platform has polled the handle once; the entity is freshly constructed
Init ==
    /\ innova \in PollSnapshots
    /\ _name = None
    /\ _id = None
    /\ pc = "idle"
    /\ upd = [fault |-> "none", result |-> "none"]
    /\ prev = View(innova, None, None)
    /\ call = NoCall
    /\ obs = NoObs

Next ==
    \/ update_fetch
    \/ update_name
    \/ update_id
    \/ \E m \in HvacModeInputs, fault \in FaultInputs : set_hvac_mode(m, fault)
    \/ \E label \in FanModeInputs, fault \in FaultInputs : set_fan_mode(label, fault)
    \/ \E label \in SwingModeInputs, fault \in FaultInputs : set_swing_mode(label, fault)
    \/ \E kwargs \in KwargsInputs, fault \in FaultInputs : set_temperature(kwargs, fault)

Spec == Init /\ [][Next]_vars

(* ------------- the read properties over every snapshot ----------------- *)

read_name ==
    /\ obs' = [op |-> "name", val |-> name(_name)]
    /\ UNCHANGED <<innova, _name, _id, pc, upd, prev, call>>

read_unique_id ==
    /\ obs' = [op |-> "unique_id", val |-> unique_id(_id)]
    /\ UNCHANGED <<innova, _name, _id, pc, upd, prev, call>>

read_current_temperature ==
    /\ obs' = [op |-> "current_temperature", val |-> current_temperature(innova)]
    /\ UNCHANGED <<innova, _name, _id, pc, upd, prev, call>>

read_target_temperature ==
    /\ obs' = [op |-> "target_temperature", val |-> target_temperature(innova)]
    /\ UNCHANGED <<innova, _name, _id, pc, upd, prev, call>>

read_min_temp ==
    /\ obs' = [op |-> "min_temp", val |-> min_temp(innova)]
    /\ UNCHANGED <<innova, _name, _id, pc, upd, prev, call>>

read_max_temp ==
    /\ obs' = [op |-> "max_temp", val |-> max_temp(innova)]
    /\ UNCHANGED <<innova, _name, _id, pc, upd, prev, call>>

read_hvac_action ==
    /\ obs' = [op |-> "hvac_action", val |-> hvac_action(innova)]
    /\ UNCHANGED <<innova, _name, _id, pc, upd, prev, call>>

read_hvac_mode ==
    /\ obs' = [op |-> "hvac_mode", val |-> hvac_mode(innova)]
    /\ UNCHANGED <<innova, _name, _id, pc, upd, prev, call>>

read_fan_mode ==
    /\ obs' = [op |-> "fan_mode", val |-> fan_mode(innova)]
    /\ UNCHANGED <<innova, _name, _id, pc, upd, prev, call>>

read_swing_mode ==
    /\ obs' = [op |-> "swing_mode", val |-> swing_mode(innova)]
    /\ UNCHANGED <<innova, _name, _id, pc, upd, prev, call>>

\* an entity between polls, its handle holding any snapshot; name and id are
\* still unset, or were copied from the handle by a completed update()
InitRead ==
    /\ innova \in Snapshots
    /\ \/ _name = None /\ _id = None
       \/ _name = innova.name /\ _id = innova.id
    /\ pc = "idle"
    /\ upd = [fault |-> "none", result |-> "none"]
    /\ prev = View(innova, _name, _id)
    /\ call = NoCall
    /\ obs = NoObs

NextRead ==
    \/ read_name
    \/ read_unique_id
    \/ read_current_temperature
    \/ read_target_temperature
    \/ read_min_temp
    \/ read_max_temp
    \/ read_hvac_action
    \/ read_hvac_mode
    \/ read_fan_mode
    \/ read_swing_mode

SpecRead == InitRead /\ [][NextRead]_vars

(* ============================ properties =============================== *)

\* the device mode a host mode stands for
DeviceModeOf(m) ==
    CASE m = "cool" -> "COOLING"
      [] m = "heat" -> "HEATING"
      [] m = "dry" -> "DEHUMIDIFICATION"
      [] m = "fan_only" -> "FAN_ONLY"
      [] m = "auto" -> "AUTO"

\* the fan label of a speed, None where there is none
FanLabelOf(n) ==
    CASE n = 0 -> "auto" [] n = 1 -> "low" [] n = 2 -> "medium" [] n = 3 -> "high"
      [] OTHER -> None

\* the speed of a fan label
FanSpeedOf(l) ==
    CASE l = "auto" -> 0 [] l = "low" -> 1 [] l = "medium" -> 2 [] l = "high" -> 3

\* a step taken by one of the write methods
WriteStep == call'.op # call.op \/ call' # call

\* C1: hvac_mode is Off whenever power is false; with power true it is
\* Cool, Heat, Dry, FanOnly, Auto for Cooling, Heating, Dehumidification,
\* Fan-only, Auto, and Off for every other device mode.
C1_HvacModeTable ==
    obs.op = "hvac_mode" =>
        obs.val = IF ~innova.power THEN "off"
                  ELSE CASE innova.mode = "COOLING" -> "cool"
                         [] innova.mode = "HEATING" -> "heat"
                         [] innova.mode = "DEHUMIDIFICATION" -> "dry"
                         [] innova.mode = "FAN_ONLY" -> "fan_only"
                         [] innova.mode = "AUTO" -> "auto"
                         [] OTHER -> "off"

C1_Witness ==
    /\ obs.op = "hvac_mode"
    /\ ~innova.power
    /\ innova.mode = "COOLING"
    /\ obs.val = "off"

\* C2: hvac_action is Off when power is false; with power true it is Cooling,
\* Heating, Drying, Fan for Cooling, Heating, Dehumidification, Fan-only; in
\* Auto it is Cooling above target + 1, Heating below target - 1 and Idle
\* otherwise, the two edges included; any other mode gives Idle.
C2_HvacActionTable ==
    obs.op = "hvac_action" =>
        obs.val = IF ~innova.power THEN "off"
                  ELSE CASE innova.mode = "COOLING" -> "cooling"
                         [] innova.mode = "HEATING" -> "heating"
                         [] innova.mode = "DEHUMIDIFICATION" -> "drying"
                         [] innova.mode = "FAN_ONLY" -> "fan"
                         [] innova.mode = "AUTO" /\ innova.ambient_temp > innova.target_temperature + Deadband
                              -> "cooling"
                         [] innova.mode = "AUTO" /\ innova.ambient_temp < innova.target_temperature - Deadband
                              -> "heating"
                         [] OTHER -> "idle"

C2_Witness ==
    /\ obs.op = "hvac_action"
    /\ innova.power
    /\ innova.mode = "AUTO"
    /\ innova.ambient_temp = innova.target_temperature + Deadband
    /\ obs.val = "idle"

\* C3: when the handle's fetch raises during update(), the caller of update()
\* gets that fault and every read property returns what it returned before
\* the call.
C3_FailedUpdateKeepsView ==
    upd.fault # "none" => upd.result = upd.fault /\ CurView = prev

C3_Witness ==
    /\ upd.fault # "none"
    /\ upd.result = upd.fault
    /\ _name = innova.name
    /\ _id = innova.id

\* C4: set_hvac_mode sends exactly one command for each of the six host
\* modes, power_off for Off and set_mode with the matching device mode for
\* the others, never power_on, and nothing for any other value.
C4_SetHvacModeCommands ==
    call.op = "set_hvac_mode" =>
        /\ call.arg = "off" => call.cmds = <<[op |-> "power_off", arg |-> "none"]>>
        /\ call.arg \in hvac_modes \ {"off"} =>
              call.cmds = <<[op |-> "set_mode", arg |-> DeviceModeOf(call.arg)]>>
        /\ call.arg \notin hvac_modes => call.cmds = <<>>
        /\ \A i \in 1 .. Len(call.cmds) : call.cmds[i].op # "power_on"

C4_Witness ==
    /\ call.op = "set_hvac_mode"
    /\ call.arg = "cool"
    /\ ~innova.power
    /\ call.cmds = <<[op |-> "set_mode", arg |-> "COOLING"]>>

\* C5: a step of set_fan_mode sends exactly one set_fan_speed command, with
\* 0, 1, 2, 3 for Auto, Low, Medium, High, sends nothing for any other
\* label, and leaves the entity's stored state as it was.
C5_SetFanModeFrame ==
    [][(WriteStep /\ call'.op = "set_fan_mode") =>
          /\ call'.arg \in fan_modes =>
                call'.cmds = <<[op |-> "set_fan_speed", arg |-> FanSpeedOf(call'.arg)]>>
          /\ call'.arg \notin fan_modes => call'.cmds = <<>>
          /\ UNCHANGED <<innova, _name, _id>>]_vars

C5_Witness ==
    /\ call.op = "set_fan_mode"
    /\ call.arg = "medium"
    /\ Len(call.cmds) = 1
    /\ call.cmds[1].arg = 2

\* C6: set_temperature without a temperature sends nothing; with a value it
\* sends exactly one set_temperature command carrying that value, whatever
\* the limits the handle reports.
C6_SetTemperatureCommands ==
    call.op = "set_temperature" =>
        IF call.arg = <<>> THEN call.cmds = <<>>
        ELSE call.cmds = <<[op |-> "set_temperature", arg |-> call.arg[1]]>>

C6_Witness ==
    /\ call.op = "set_temperature"
    /\ call.arg # <<>>
    /\ call.arg[1] > innova.max_temperature
    /\ Len(call.cmds) = 1
    /\ call.cmds[1].arg = call.arg[1]

\* C7: fan_mode is Auto, Low, Medium, High for the speeds 0, 1, 2, 3 and
\* absent for every other speed, and the speed set_fan_mode sends for one of
\* the four labels reads back as that label.
C7_FanModeRoundTrip ==
    /\ fan_mode(innova) = FanLabelOf(innova.fan_speed)
    /\ (call.op = "set_fan_mode" /\ call.arg \in fan_modes) =>
          /\ Len(call.cmds) >= 1
          /\ \A i \in 1 .. Len(call.cmds) :
                fan_mode([innova EXCEPT !.fan_speed = call.cmds[i].arg]) = call.arg

C7_Witness ==
    /\ call.op = "set_fan_mode"
    /\ call.arg = "high"
    /\ Len(call.cmds) = 1
    /\ innova.fan_speed = MaxSpeed
    /\ fan_mode(innova) = None

\* C8: while update() runs, a reader that calls every read property sees the
\* values of the old snapshot or the values of the new one, never a mix.
C8_AtomicPublish ==
    pc # "idle" => \/ CurView = prev
                   \/ CurView = View(innova, innova.name, innova.id)

\* C9: a step of a write method changes nothing the entity stores and
\* nothing a read property returns; what the host sees changes only in the
\* steps of update().
C9_WritesLeaveViewAlone ==
    [][WriteStep => CurView' = CurView /\ UNCHANGED <<innova, _name, _id>>]_vars

C9_Witness ==
    /\ call.op = "set_temperature"
    /\ call.result = "none"
    /\ Len(call.cmds) = 1
    /\ call.cmds[1].arg # target_temperature(innova)

\* C10: when the command a write method sends raises, the caller gets that
\* same fault, and the handle received that one command and no other.
C10_FaultPropagates ==
    (call.fault # "none" /\ Len(call.cmds) > 0) =>
        /\ call.result = call.fault
        /\ Len(call.cmds) = 1

C10_Witness ==
    /\ call.op = "set_swing_mode"
    /\ call.arg = "on"
    /\ call.result = "Timeout"
    /\ Len(call.cmds) = 1

====
